---- MODULE Spec2Model ----
(***************************************************************************)
(* Model of the two relay servers of python-server:                        *)
(*   hybrid_server.py  HybridElevenLabsRelay, the three-way relay          *)
(*                     (browser, ElevenLabs AI, ElevenLabs TTS);           *)
(*   server.py         ElevenLabsRelay, the two-way relay (browser, AI).   *)
(* A process runs one of them.                                             *)
(*                                                                         *)
(* A session is one run of handle_browser_connection.  Its sockets are     *)
(* "down" (the browser), "ai" and "tts".  A step runs one task from one    *)
(* await to the next: every connect, send, close and recv of the handler   *)
(* and of the loops is a place where the other tasks and the peers may     *)
(* act.  A send that returns at once does not yield to the event loop and  *)
(* is part of the step that makes it.                                      *)
(***************************************************************************)
EXTENDS Integers, Sequences, FiniteSets, TLC

\* ---------------------------------------------------------------- bounds
\* Frames the loops of one browser connection may receive in one behaviour.
MaxFrames == 2

\* With several browser connections at once: frames their loops may receive,
\* and connections their peers may close, in one behaviour.
MaxSessionFrames == 1
MaxSessionPeerCloses == 2

\* The browser connections of a behaviour: one run of the handler each.
Clients == {1}

\* ------------------------------------------------------------ JSON values
\* Python None / JSON null.
None == "<None>"

\* dict.get(key, default)
Get(d, k, default) == IF k \in DOMAIN d THEN d[k] ELSE default

\* Python truthiness of a decoded JSON value that is a string or null.
Truthy_NotNone(v) == v # None

Truthy(v) == v # None /\ v # ""

\* A frame on the wire: text that is not JSON, JSON that is not an object,
\* or a JSON object.
BadJSON == [kind |-> "malformed"]
Scalar == [kind |-> "scalar"]
Obj(v) == [kind |-> "object", val |-> v]

\* json.loads followed by the first event.get(): JSONDecodeError for text
\* that is not JSON, AttributeError (no .get) for JSON that is not an object.
json_loads(frame) ==
    IF frame.kind = "malformed" THEN [err |-> "JSONDecodeError"]
    ELSE IF frame.kind = "scalar" THEN [err |-> "AttributeError"]
    ELSE [err |-> "", val |-> frame.val]

\* --------------------------------------------------------------- request path
\* base_path taking the part after the last "?": path.split("?")[-1].
base_path_AfterQuery(path) ==
    LET qs == {i \in 1..Len(path) : path[i] = "?"}
    IN  IF qs = {} THEN path
        ELSE SubSeq(path, (CHOOSE i \in qs : \A j \in qs : i >= j) + 1, Len(path))

\* path.split("?")[0]; a path is a sequence of characters.
base_path(path) ==
    LET qs == {i \in 1..Len(path) : path[i] = "?"}
    IN  IF qs = {} THEN path
        ELSE SubSeq(path, 1, (CHOOSE i \in qs : \A j \in qs : i <= j) - 1)

Paths == { <<"/">>, <<"/", "?", "m">>, <<"/", "v", "1">>, <<"/", "v", "?", "/">>,
           <<"?", "/">>, <<>> }

\* The server module the process runs.
Servers == {"hybrid_server", "server"}

\* ------------------------------------------------------ messages the relay sends
\* session_created["session"], of hybrid_server.py and of server.py
session_descriptor(srv) ==
    [ id |-> IF srv = "hybrid_server" THEN "elevenlabs_hybrid_session"
             ELSE "elevenlabs_session",
      object |-> "realtime.session",
      model |-> IF srv = "hybrid_server" THEN "elevenlabs-hybrid"
                ELSE "elevenlabs-conversational-ai",
      modalities |-> <<"text", "audio">>,
      instructions |-> IF srv = "hybrid_server" THEN "ElevenLabs Hybrid Agent"
                       ELSE "ElevenLabs Conversational AI Agent",
      voice |-> IF srv = "hybrid_server" THEN "elevenlabs-tts-voice"
                ELSE "elevenlabs-agent-voice",
      input_audio_format |-> "pcm16",
      output_audio_format |-> "pcm16",
      input_audio_transcription |-> None,
      turn_detection |-> [ type |-> "server_vad", threshold |-> "0.5",
                           prefix_padding_ms |-> 300,
                           silence_duration_ms |-> 200 ],
      tools |-> <<>>,
      tool_choice |-> "auto",
      temperature |-> "0.8",
      max_response_output_tokens |-> "inf" ]

session_created_event(srv) ==
    [type |-> "session.created", session |-> session_descriptor(srv)]

\* init_message without the voice settings, chunk schedule and API key.
init_message_TextOnly == [text |-> " ", flush |-> TRUE]

init_message ==
    [ text |-> " ",
      voice_settings |-> [ stability |-> "0.5", similarity_boost |-> "0.8",
                           use_speaker_boost |-> FALSE ],
      generation_config |-> [ chunk_length_schedule |-> <<120, 160, 250, 290>> ],
      xi_api_key |-> "ELEVENLABS_API_KEY" ]

\* ack_event with the requested change applied to the descriptor.
ack_event_Applied(created) ==
    [type |-> "session.updated", session |-> [created.session EXCEPT !.voice = "alloy"]]

ack_event(created) == [type |-> "session.updated", session |-> created.session]

\* ai_message with the audio payload dropped.
ai_message_NoAudio(event) == [user_audio_chunk |-> ""]

ai_message(event) == [user_audio_chunk |-> Get(event, "audio", "")]

\* tts_message without the flush flag set.
tts_message_NoFlush(text_response) == [text |-> text_response, flush |-> FALSE]

tts_message(text_response) == [text |-> text_response, flush |-> TRUE]

text_event(text_response) ==
    [ type |-> "response.text.delta",
      response_id |-> "elevenlabs_response",
      item_id |-> "elevenlabs_text",
      output_index |-> 0,
      content_index |-> 0,
      delta |-> text_response ]

interrupted_event == [type |-> "conversation.interrupted"]

audio_delta_event(audio_data) ==
    [ type |-> "response.audio.delta",
      response_id |-> "elevenlabs_tts_response",
      item_id |-> "elevenlabs_tts_audio",
      output_index |-> 0,
      content_index |-> 0,
      delta |-> audio_data ]

completion_event == [type |-> "response.audio.done"]

\* server.py: the response.audio.delta made from an AI "audio" event
openai_audio_event(audio_base_64) ==
    [ type |-> "response.audio.delta",
      response_id |-> "elevenlabs_response",
      item_id |-> "elevenlabs_audio",
      output_index |-> 0,
      content_index |-> 0,
      delta |-> audio_base_64 ]

\* A send the loop body makes: the socket and the message.
To(k, m) == [to |-> k, msg |-> m]

\* ------------------------------------------------------------- the three loops
\* handle_browser_messages forwarding to the AI socket the events it has no
\* branch for.
handle_browser_messages_ForwardOthers(event, created) ==
    LET event_type == Get(event, "type", None)
    IN  IF event_type = "session.update" THEN << To("down", ack_event(created)) >>
        ELSE IF event_type = "input_audio_buffer.append"
             THEN << To("ai", ai_message(event)) >>
        ELSE << To("ai", event) >>

\* Body of handle_browser_messages for one decoded event: the sends it makes,
\* in order.  created is the session_created of the enclosing handler.
handle_browser_messages(event, created) ==
    LET event_type == Get(event, "type", None)
    IN  IF event_type = "session.update" THEN << To("down", ack_event(created)) >>
        ELSE IF event_type = "input_audio_buffer.append"
             THEN << To("ai", ai_message(event)) >>
        ELSE << >>

\* handle_elevenlabs_ai_messages sending the text delta before the utterance.
handle_elevenlabs_ai_messages_DeltaFirst(event) ==
    LET event_type == Get(event, "type", None)
        agent_response == Get(event, "agent_response_event", << >>)
        text_response == Get(agent_response, "agent_response", "")
    IN  IF event_type = "agent_response"
        THEN IF Truthy(text_response)
             THEN << To("down", text_event(text_response)),
                     To("tts", tts_message(text_response)) >>
             ELSE << >>
        ELSE IF event_type = "interruption" \/ event_type = "agent_response_correction"
             THEN << To("down", interrupted_event) >>
        ELSE << >>

\* handle_elevenlabs_ai_messages forwarding the events it does not translate.
handle_elevenlabs_ai_messages_ForwardOthers(event) ==
    LET event_type == Get(event, "type", None)
        agent_response == Get(event, "agent_response_event", << >>)
        text_response == Get(agent_response, "agent_response", "")
    IN  IF event_type = "agent_response"
        THEN IF Truthy(text_response)
             THEN << To("tts", tts_message(text_response)),
                     To("down", text_event(text_response)) >>
             ELSE << >>
        ELSE IF event_type = "interruption" \/ event_type = "agent_response_correction"
             THEN << To("down", interrupted_event) >>
        ELSE << To("down", event) >>

\* handle_elevenlabs_ai_messages relaying "interruption" only.
handle_elevenlabs_ai_messages_NoCorrection(event) ==
    LET event_type == Get(event, "type", None)
        agent_response == Get(event, "agent_response_event", << >>)
        text_response == Get(agent_response, "agent_response", "")
    IN  IF event_type = "agent_response"
        THEN IF Truthy(text_response)
             THEN << To("tts", tts_message(text_response)),
                     To("down", text_event(text_response)) >>
             ELSE << >>
        ELSE IF event_type = "interruption" THEN << To("down", interrupted_event) >>
        ELSE << >>

\* Body of handle_elevenlabs_ai_messages for one decoded event.
handle_elevenlabs_ai_messages(event) ==
    LET event_type == Get(event, "type", None)
        agent_response == Get(event, "agent_response_event", << >>)
        text_response == Get(agent_response, "agent_response", "")
    IN  IF event_type = "agent_response"
        THEN IF Truthy(text_response)
             THEN << To("tts", tts_message(text_response)),
                     To("down", text_event(text_response)) >>
             ELSE << >>
        ELSE IF event_type = "user_transcript" THEN << >>
        ELSE IF event_type = "interruption" \/ event_type = "agent_response_correction"
             THEN << To("down", interrupted_event) >>
        ELSE << >>

\* Body of handle_elevenlabs_tts_messages for one decoded message.
handle_elevenlabs_tts_messages(data) ==
    IF Truthy(Get(data, "audio", None))
    THEN << To("down", audio_delta_event(data["audio"])) >>
    ELSE IF Get(data, "isFinal", FALSE)
         THEN << To("down", completion_event) >>
    ELSE << >>

\* server.py: body of handle_elevenlabs_messages for one decoded event.  After
\* the if/elif chain the received message itself is sent to the browser.
handle_elevenlabs_messages(event) ==
    LET event_type == Get(event, "type", None)
        message_content == Get(event, "message", << >>)
        translated ==
            IF event_type = "audio"
            THEN << To("down", openai_audio_event(
                        Get(Get(event, "audio_event", << >>), "audio_base_64", ""))) >>
            ELSE IF event_type = "message"
                 THEN IF Get(message_content, "role", None) = "assistant"
                      THEN << To("down", text_event(Get(message_content, "content", ""))) >>
                      ELSE << >>
            ELSE IF event_type = "interruption"
                 THEN << To("down", interrupted_event) >>
            ELSE << >>
    IN  translated \o << To("down", event) >>

\* ------------------------------------------------------------------- frames
Payloads == {"QUJD"}
Texts == {"hello"}
Audios == {"Zm9v"}

BrowserFrames ==
    { BadJSON, Scalar, Obj(<< >>),
      Obj([type |-> "session.update"]),
      Obj([type |-> "session.update", session |-> [voice |-> "alloy"]]),
      Obj([type |-> "input_audio_buffer.append"]),
      Obj([type |-> "input_audio_buffer.commit"]),
      Obj([type |-> "response.create"]),
      Obj([type |-> "conversation.item.create"]) }
    \cup { Obj([type |-> "input_audio_buffer.append", audio |-> p]) : p \in Payloads }

AIFrames ==
    { BadJSON,
      Obj([type |-> "agent_response"]),
      Obj([type |-> "agent_response", agent_response_event |-> << >>]),
      Obj([type |-> "agent_response", agent_response_event |-> [agent_response |-> ""]]),
      Obj([type |-> "user_transcript"]),
      Obj([type |-> "interruption"]),
      Obj([type |-> "agent_response_correction"]),
      Obj([type |-> "ping"]),
      Obj([type |-> "audio", audio_event |-> [audio_base_64 |-> "Zm9v"]]) }
    \cup { Obj([type |-> "agent_response", agent_response_event |-> [agent_response |-> t]])
           : t \in Texts }

\* Frames of the AI service as server.py reads them.
ElevenLabsFrames ==
    { BadJSON, Scalar,
      Obj([type |-> "audio"]),
      Obj([type |-> "message", message |-> [role |-> "user", content |-> "hi"]]),
      Obj([type |-> "interruption"]),
      Obj([type |-> "agent_response_correction"]),
      Obj([type |-> "user_transcript"]),
      Obj([type |-> "ping"]) }
    \cup { Obj([type |-> "audio", audio_event |-> [audio_base_64 |-> a]]) : a \in Audios }
    \cup { Obj([type |-> "message", message |-> [role |-> "assistant", content |-> t]])
           : t \in Texts }

TTSFrames ==
    { BadJSON, Obj(<< >>),
      Obj([audio |-> None, isFinal |-> TRUE]),
      Obj([isFinal |-> TRUE]),
      Obj([audio |-> ""]) }
    \cup { Obj([audio |-> a]) : a \in Audios }
    \cup { Obj([audio |-> a, isFinal |-> TRUE]) : a \in Audios }

\* -------------------------------------------------------------------- state
VARIABLES
    server,          \* the module the process runs: hybrid_server.py or server.py
    pc,              \* where each handle_browser_connection is
    path,            \* the path argument of the handler
    sock,            \* state of the sockets websocket, elevenlabs_ai_ws, elevenlabs_tts_ws
    closeCode,       \* code of the close() the relay issued on a socket, 0 if none
    loop,            \* state of the three tasks given to asyncio.gather
    pending,         \* the send a loop is suspended in, and the sends left in its iteration
    connections,     \* self.connections
    session_created, \* the handler's local session_created
    failure,         \* the exception that took the handler to its except block
    sent,            \* messages written to each socket, in order
    regOps,          \* number of inserts into and deletes from self.connections
    nframes,         \* frames received so far by all loops
    lastRecv         \* the frame most recently returned by a recv()

vars == << server, pc, path, sock, closeCode, loop, pending, connections, session_created,
           failure, sent, regOps, nframes, lastRecv >>

Socks == {"down", "ai", "tts"}

NoFrame == [kind |-> "none"]
NoEvent == [type |-> "unset"]

\* Frames the loops may receive.
FrameBound == IF DOMAIN pc = Clients THEN MaxFrames ELSE MaxSessionFrames

\* Connections closed by their peer (the relay's own close() records its code).
PeerCloses ==
    Cardinality({ x \in (DOMAIN pc) \X Socks :
                    sock[x[1]][x[2]] = "closed" /\ closeCode[x[1]][x[2]] = 0 })

\* No send is suspended.
NoSend == [wait |-> "", rest |-> << >>, written |-> FALSE]

Init ==
    /\ server \in Servers
    /\ pc = [s \in Clients |-> "new"]
    /\ path = [s \in Clients |-> << >>]
    /\ sock = [s \in Clients |-> [down |-> "open", ai |-> "none", tts |-> "none"]]
    /\ closeCode = [s \in Clients |-> [down |-> 0, ai |-> 0, tts |-> 0]]
    /\ loop = [s \in Clients |-> [down |-> "idle", ai |-> "idle", tts |-> "idle"]]
    /\ pending = [s \in Clients |-> [down |-> NoSend, ai |-> NoSend, tts |-> NoSend]]
    /\ connections = << >>
    /\ session_created = [s \in Clients |-> NoEvent]
    /\ failure = [s \in Clients |-> ""]
    /\ sent = [s \in Clients |-> [down |-> << >>, ai |-> << >>, tts |-> << >>]]
    /\ regOps = [s \in Clients |-> [ins |-> 0, del |-> 0]]
    /\ nframes = 0
    /\ lastRecv = [sess |-> 0, sock |-> "", frame |-> NoFrame]

\* ws.send(): writes the message on an open socket, raises ConnectionClosed on
\* a closed one.
CanSend(state) == state = "open"

\* Where a run of sends stops: the messages written, the socket whose send the
\* task is suspended in ("" if it is not suspended), the sends still to make,
\* and whether the suspended send has written its message (it waits for the
\* transport to drain) or not (it waits for the end of a closing handshake).
Outcome(out, w, r, wr) == [sent |-> out, wait |-> w, rest |-> r, written |-> wr]

\* The record kept of a suspended send.
Suspended(o) == [wait |-> o.wait, rest |-> o.rest, written |-> o.written]

\* Deliver putting each message in front of the ones sent before.
RECURSIVE Deliver_Prepend(_, _, _)
Deliver_Prepend(intents, sk, out) ==
    IF intents = << >> THEN { Outcome(out, "", << >>, FALSE) }
    ELSE LET i == Head(intents)
             written == [out EXCEPT ![i.to] = << i.msg >> \o @]
         IN  IF sk[i.to] = "open"
             THEN { Outcome(written, i.to, Tail(intents), TRUE) }
                  \cup Deliver_Prepend(Tail(intents), sk, written)
             ELSE IF sk[i.to] = "closing"
             THEN { Outcome(out, i.to, << >>, FALSE) }
             ELSE { Outcome(out, "", << >>, FALSE) }

\* The sends of one loop body, in order, from one await to the next.  Each
\* "await ws.send(m)" on an open socket writes m and then either returns at
\* once or is suspended until the transport has drained or is lost; on a
\* closing socket it writes nothing and is suspended until the connection is
\* closed, then raises; on a closed socket it raises at once.  A send that raises is logged
\* by the loop's "except Exception" and the rest of the body is skipped.
RECURSIVE Deliver(_, _, _)
Deliver(intents, sk, out) ==
    IF intents = << >> THEN { Outcome(out, "", << >>, FALSE) }
    ELSE LET i == Head(intents)
             written == [out EXCEPT ![i.to] = Append(@, i.msg)]
         IN  IF CanSend(sk[i.to])
             THEN { Outcome(written, i.to, Tail(intents), TRUE) }
                  \cup Deliver(Tail(intents), sk, written)
             ELSE IF sk[i.to] = "closing"
             THEN { Outcome(out, i.to, << >>, FALSE) }
             ELSE { Outcome(out, "", << >>, FALSE) }

\* ------------------------------------------------- the handler's finally block
\* Each operator runs the block from one statement on, up to the next await
\* or the return, and gives the resulting pc, sockets, close codes and registry.
Result(p, sk, cc, conns, ops) ==
    [pc |-> p, sock |-> sk, closeCode |-> cc, connections |-> conns, regOps |-> ops]

\* FinallyDown closing the browser socket with 1011 instead of 1000.
FinallyDown_InternalError(s, sk, cc, conns, ops) ==
    IF sk[s].down # "closed"
    THEN Result("closing_down", [sk EXCEPT ![s].down = "closing"],
                [cc EXCEPT ![s].down = 1011], conns, ops)
    ELSE Result("returned", sk, cc, conns, ops)

\* if not websocket.closed: await websocket.close(1000, ...)
FinallyDown(s, sk, cc, conns, ops) ==
    IF sk[s].down # "closed"
    THEN Result("closing_down", [sk EXCEPT ![s].down = "closing"],
                [cc EXCEPT ![s].down = 1000], conns, ops)
    ELSE Result("returned", sk, cc, conns, ops)

\* FinallyDel leaving the session's entry in the registry.
FinallyDel_KeepEntry(s, sk, cc, conns, ops) == FinallyDown(s, sk, cc, conns, ops)

\* FinallyDel emptying the registry instead of deleting the session's entry.
FinallyDel_ClearAll(s, sk, cc, conns, ops) ==
    FinallyDown(s, sk, cc, << >>, [ops EXCEPT ![s].del = @ + 1])

\* del self.connections[websocket]
FinallyDel(s, sk, cc, conns, ops) ==
    FinallyDown(s, sk, cc, [k \in DOMAIN conns \ {s} |-> conns[k]],
                [ops EXCEPT ![s].del = @ + 1])

\* FinallyTTS without the close of the TTS socket.
FinallyTTS_NoClose(s, sk, cc, conns, ops) == FinallyDel(s, sk, cc, conns, ops)

\* if connections.get('tts') and not connections['tts'].closed: await ...close(1000)
FinallyTTS(s, sk, cc, conns, ops) ==
    LET o == conns[s].tts
    IN  IF sk[o].tts # "closed"
        THEN Result("closing_tts", [sk EXCEPT ![o].tts = "closing"],
                    [cc EXCEPT ![o].tts = 1000], conns, ops)
        ELSE FinallyDel(s, sk, cc, conns, ops)

\* if connections.get('ai') and not connections['ai'].closed: await ...close(1000)
FinallyAI(s, sk, cc, conns, ops) ==
    LET o == conns[s].ai
    IN  IF sk[o].ai # "closed"
        THEN Result("closing_ai", [sk EXCEPT ![o].ai = "closing"],
                    [cc EXCEPT ![o].ai = 1000], conns, ops)
        ELSE FinallyTTS(s, sk, cc, conns, ops)

\* server.py: if elevenlabs_ws and not elevenlabs_ws.closed: await ...close(1000)
FinallyElevenLabs(s, sk, cc, conns, ops) ==
    IF sk[s].ai \notin {"none", "closed"}
    THEN Result("closing_ai", [sk EXCEPT ![s].ai = "closing"],
                [cc EXCEPT ![s].ai = 1000], conns, ops)
    ELSE FinallyDel(s, sk, cc, conns, ops)

\* finally: if websocket in self.connections: ... ; if not websocket.closed: ...
FinallyBlock(s, sk, cc, conns, ops) ==
    IF s \in DOMAIN conns
    THEN IF server = "hybrid_server"
         THEN FinallyAI(s, sk, cc, conns, ops)
         ELSE FinallyElevenLabs(s, sk, cc, conns, ops)
    ELSE FinallyDown(s, sk, cc, conns, ops)

\* ExceptBlock without the close(1011).
ExceptBlock_NoClose(s, sk, cc, conns, ops) == FinallyBlock(s, sk, cc, conns, ops)

\* except Exception: if not websocket.closed: await websocket.close(1011, str(e)).
\* The handler is suspended in that close until the closing handshake has
\* ended; with the browser socket already closed it goes on to the finally
\* block at once.
ExceptBlock(s, sk, cc, conns, ops) ==
    IF sk[s].down # "closed"
    THEN Result("closing_1011", [sk EXCEPT ![s].down = "closing"],
                [cc EXCEPT ![s].down = 1011], conns, ops)
    ELSE FinallyBlock(s, sk, cc, conns, ops)

Apply(s, r) ==
    /\ pc' = [pc EXCEPT ![s] = r.pc]
    /\ sock' = r.sock
    /\ closeCode' = r.closeCode
    /\ connections' = r.connections
    /\ regOps' = r.regOps

\* An exception e reaches the handler's "except Exception".
Raise(s, e, sk, conns, ops) ==
    /\ failure' = [failure EXCEPT ![s] = e]
    /\ Apply(s, ExceptBlock(s, sk, closeCode, conns, ops))

\* ------------------------------------------------------------ the handler
\* Accept going on to the TTS connect without the AI connect.
Accept_SkipAI(s, p) ==
    /\ pc[s] = "new"
    /\ path' = [path EXCEPT ![s] = p]
    /\ IF base_path(p) # << "/" >>
       THEN /\ pc' = [pc EXCEPT ![s] = "closing_1008"]
            /\ sock' = [sock EXCEPT ![s].down = "closing"]
            /\ closeCode' = [closeCode EXCEPT ![s].down = 1008]
       ELSE /\ pc' = [pc EXCEPT ![s] = "connect_tts"]
            /\ UNCHANGED << sock, closeCode >>
    /\ UNCHANGED << server, loop, pending, connections, session_created, failure, sent,
                    regOps, nframes, lastRecv >>

\* Entry of handle_browser_connection: the path check.  On a bad path the
\* handler calls websocket.close(1008, ...) and is suspended in it.
Accept(s, p) ==
    /\ pc[s] = "new"
    /\ path' = [path EXCEPT ![s] = p]
    /\ IF base_path(p) # << "/" >>
       THEN /\ pc' = [pc EXCEPT ![s] = "closing_1008"]
            /\ sock' = [sock EXCEPT ![s].down = "closing"]
            /\ closeCode' = [closeCode EXCEPT ![s].down = 1008]
       ELSE /\ pc' = [pc EXCEPT ![s] = "connect_ai"]
            /\ UNCHANGED << sock, closeCode >>
    /\ UNCHANGED << server, loop, pending, connections, session_created, failure, sent,
                    regOps, nframes, lastRecv >>

\* await websocket.close(1008, "Invalid path") returns, and the handler
\* returns before the try block.
CloseRejectDone(s) ==
    /\ pc[s] = "closing_1008"
    /\ pc' = [pc EXCEPT ![s] = "returned"]
    /\ sock' = [sock EXCEPT ![s].down = "closed"]
    /\ UNCHANGED << server, path, closeCode, loop, pending, connections, session_created,
                    failure, sent, regOps, nframes, lastRecv >>

\* await websocket.close(1011, str(e)) returns; the finally block runs up to
\* its first await.
CloseErrorDone(s) ==
    /\ pc[s] = "closing_1011"
    /\ Apply(s, FinallyBlock(s, [sock EXCEPT ![s].down = "closed"],
                             closeCode, connections, regOps))
    /\ UNCHANGED << server, path, loop, pending, session_created, failure, sent,
                    nframes, lastRecv >>

\* await asyncio.gather(...): the forwarding loops of the module start.
Gather(s, sk, conns, ops) ==
    /\ loop' = [loop EXCEPT ![s] =
                  [down |-> "running", ai |-> "running",
                   tts |-> IF server = "hybrid_server" THEN "running" ELSE "idle"]]
    /\ Apply(s, Result("pump", sk, closeCode, conns, ops))
    /\ UNCHANGED failure

\* The try block from the registry insert on: self.connections[websocket] =
\* entry, session_created = {...}, await websocket.send(session_created) and,
\* when that send returns at once, asyncio.gather.  The send may also be
\* suspended after writing the message; on a closed browser socket it raises.
\* sk and out are the sockets and the messages sent as the connects left them.
Register(s, sk, out, entry) ==
    LET conns == [k \in DOMAIN connections \cup {s} |->
                    IF k = s THEN entry ELSE connections[k]]
        ops == [regOps EXCEPT ![s].ins = @ + 1]
        created == session_created_event(server)
    IN  /\ session_created' = [session_created EXCEPT ![s] = created]
        /\ IF CanSend(sk[s].down)
           THEN /\ sent' = [out EXCEPT ![s].down = Append(@, created)]
                /\ \/ Gather(s, sk, conns, ops)
                   \/ /\ Apply(s, Result("send_created", sk, closeCode, conns, ops))
                      /\ UNCHANGED << loop, failure >>
           ELSE /\ sent' = out
                /\ Raise(s, "send_created", sk, conns, ops)
                /\ UNCHANGED loop

\* hybrid_server.py: elevenlabs_ai_ws = await connect_to_elevenlabs_ai()
ConnectAI(s, ok) ==
    /\ server = "hybrid_server"
    /\ pc[s] = "connect_ai"
    /\ IF ok
       THEN /\ pc' = [pc EXCEPT ![s] = "connect_tts"]
            /\ sock' = [sock EXCEPT ![s].ai = "open"]
            /\ UNCHANGED << closeCode, connections, regOps, failure >>
       ELSE Raise(s, "connect_ai", sock, connections, regOps)
    /\ UNCHANGED << server, path, loop, pending, session_created, sent, nframes, lastRecv >>

\* elevenlabs_tts_ws = await connect_to_elevenlabs_tts(), up to the next await.
\*   "connect_failed": connect() raised;
\*   "init_failed":    the connection was made and was lost before
\*                     init_message was written: ws.send raised;
\*   "ok":             the connection was made and init_message was written;
\*                     ws.send either returns at once, and the try block goes
\*                     on, or is suspended.
ConnectTTS(s, outcome) ==
    /\ pc[s] = "connect_tts"
    /\ UNCHANGED << server, path, pending, nframes, lastRecv >>
    /\ IF outcome = "ok"
       THEN LET sk == [sock EXCEPT ![s].tts = "open"]
                out == [sent EXCEPT ![s].tts = Append(@, init_message)]
            IN  \/ Register(s, sk, out, [ai |-> s, tts |-> s])
                \/ /\ pc' = [pc EXCEPT ![s] = "send_init"]
                   /\ sock' = sk
                   /\ sent' = out
                   /\ UNCHANGED << closeCode, loop, connections, session_created,
                                   failure, regOps >>
       ELSE /\ Raise(s, outcome,
                     IF outcome = "init_failed"
                     THEN [sock EXCEPT ![s].tts = "closed"] ELSE sock,
                     connections, regOps)
            /\ UNCHANGED << loop, session_created, sent >>

\* hybrid_server.py: the suspended "await ws.send(json.dumps(init_message))"
\* is resumed.  It returns when the transport has drained, and also when the
\* connection was lost without an error; it raises when the connection was
\* lost with one.
InitSent(s) ==
    /\ pc[s] = "send_init"
    /\ UNCHANGED << server, path, pending, nframes, lastRecv >>
    /\ \/ Register(s, sock, sent, [ai |-> s, tts |-> s])
       \/ /\ sock[s].tts = "closed"
          /\ Raise(s, "init_failed", sock, connections, regOps)
          /\ UNCHANGED << loop, session_created, sent >>

\* The suspended "await websocket.send(json.dumps(session_created))" is
\* resumed.  It returns, and the loops start, when the transport has drained
\* and also when the browser connection was lost without an error; it raises
\* when the connection was lost with one.
CreatedSent(s) ==
    /\ pc[s] = "send_created"
    /\ UNCHANGED << server, path, pending, session_created, sent, nframes, lastRecv >>
    /\ \/ Gather(s, sock, connections, regOps)
       \/ /\ sock[s].down = "closed"
          /\ Raise(s, "send_created", sock, connections, regOps)
          /\ UNCHANGED loop

\* server.py: elevenlabs_ws = await connect_to_elevenlabs(), and on success the
\* try block up to its next await.
ConnectElevenLabs(s, ok) ==
    /\ server = "server"
    /\ pc[s] = "connect_ai"
    /\ UNCHANGED << server, path, pending, nframes, lastRecv >>
    /\ IF ok
       THEN Register(s, [sock EXCEPT ![s].ai = "open"], sent, [ai |-> s])
       ELSE /\ Raise(s, "connect_ai", sock, connections, regOps)
            /\ UNCHANGED << loop, session_created, sent >>

\* asyncio.gather raises the first ConnectionClosed of a loop; the handler
\* logs it and enters the finally block.  The other tasks are not cancelled.
GatherRaised(s) ==
    /\ pc[s] = "pump"
    /\ \E k \in Socks : loop[s][k] = "ended"
    /\ Apply(s, FinallyBlock(s, sock, closeCode, connections, regOps))
    /\ UNCHANGED << server, path, loop, pending, session_created, failure, sent,
                    nframes, lastRecv >>

\* server.py: await elevenlabs_ws.close(1000, ...) returns
CloseElevenLabsDone(s) ==
    /\ server = "server"
    /\ pc[s] = "closing_ai"
    /\ Apply(s, FinallyDel(s, [sock EXCEPT ![s].ai = "closed"],
                           closeCode, connections, regOps))
    /\ UNCHANGED << server, path, loop, pending, session_created, failure, sent,
                    nframes, lastRecv >>

\* hybrid_server.py: await connections['ai'].close(1000, ...) returns
CloseAIDone(s) ==
    /\ server = "hybrid_server"
    /\ pc[s] = "closing_ai"
    /\ Apply(s, FinallyTTS(s, [sock EXCEPT ![connections[s].ai].ai = "closed"],
                           closeCode, connections, regOps))
    /\ UNCHANGED << server, path, loop, pending, session_created, failure, sent,
                    nframes, lastRecv >>

\* await connections['tts'].close(1000, ...) returns
CloseTTSDone(s) ==
    /\ pc[s] = "closing_tts"
    /\ Apply(s, FinallyDel(s, [sock EXCEPT ![connections[s].tts].tts = "closed"],
                           closeCode, connections, regOps))
    /\ UNCHANGED << server, path, loop, pending, session_created, failure, sent,
                    nframes, lastRecv >>

\* await websocket.close(1000, ...) returns, and so does the handler
CloseDownDone(s) ==
    /\ pc[s] = "closing_down"
    /\ pc' = [pc EXCEPT ![s] = "returned"]
    /\ sock' = [sock EXCEPT ![s].down = "closed"]
    /\ UNCHANGED << server, path, closeCode, loop, pending, connections, session_created,
                    failure, sent, regOps, nframes, lastRecv >>

\* ------------------------------------------------------------- the loops
\* Loop k of session s has run its sends up to outcome o: it is suspended in
\* a send, or the body is over and the loop is back at recv().
Proceed(s, k, o) ==
    /\ sent' = [sent EXCEPT ![s] = o.sent]
    /\ loop' = [loop EXCEPT ![s][k] = IF o.wait = "" THEN "running" ELSE "sending"]
    /\ pending' = [pending EXCEPT ![s][k] = Suspended(o)]

\* LoopBody with a failing send ending the loop instead of being logged.
LoopBody_SendFailureFatal(s, k, frame, intents) ==
    /\ loop[s][k] = "running"
    /\ nframes < FrameBound
    /\ \E o \in Deliver(intents, sock[s], sent[s]) :
          /\ sent' = [sent EXCEPT ![s] = o.sent]
          /\ loop' = [loop EXCEPT ![s][k] =
                        IF \E i \in 1 .. Len(intents) : ~ CanSend(sock[s][intents[i].to])
                        THEN "ended"
                        ELSE IF o.wait = "" THEN "running" ELSE "sending"]
          /\ pending' = [pending EXCEPT ![s][k] = Suspended(o)]
    /\ nframes' = nframes + 1
    /\ lastRecv' = [sess |-> s, sock |-> k, frame |-> frame]
    /\ UNCHANGED << server, pc, path, sock, closeCode, connections, session_created,
                    failure, regOps >>

\* One iteration of a forwarding loop whose recv() returned frame, up to its
\* next await.  recv() hands out frames that arrived before the close even
\* when the connection is closing or closed, so the socket's state is no guard.
LoopBody(s, k, frame, intents) ==
    /\ loop[s][k] = "running"
    /\ nframes < FrameBound
    /\ \E o \in Deliver(intents, sock[s], sent[s]) : Proceed(s, k, o)
    /\ nframes' = nframes + 1
    /\ lastRecv' = [sess |-> s, sock |-> k, frame |-> frame]
    /\ UNCHANGED << server, pc, path, sock, closeCode, connections, session_created,
                    failure, regOps >>

\* A loop suspended in a send is resumed.  A send that has written its
\* message returns when the transport has drained, whatever the state of the
\* connection by then (open, closing, or lost without an error), and the body
\* goes on to its next await; it raises ConnectionClosed when the connection
\* was lost with an error.  A send waiting for the end of a closing handshake
\* raises once the connection is closed.  The loop's "except Exception" logs
\* a send that raises and the rest of the body is skipped.
SendResumed(s, k) ==
    /\ loop[s][k] = "sending"
    /\ \/ /\ pending[s][k].written
          /\ \E o \in Deliver(pending[s][k].rest, sock[s], sent[s]) : Proceed(s, k, o)
       \/ /\ sock[s][pending[s][k].wait] = "closed"
          /\ Proceed(s, k, Outcome(sent[s], "", << >>, FALSE))
    /\ UNCHANGED << server, pc, path, sock, closeCode, connections, session_created,
                    failure, regOps, nframes, lastRecv >>

\* BrowserRecv with a JSONDecodeError ending the loop instead of being logged.
BrowserRecv_DecodeErrorFatal(s, frame) ==
    LET r == json_loads(frame)
    IN  IF r.err = "JSONDecodeError"
        THEN /\ loop[s].down = "running"
             /\ nframes < FrameBound
             /\ loop' = [loop EXCEPT ![s].down = "ended"]
             /\ nframes' = nframes + 1
             /\ lastRecv' = [sess |-> s, sock |-> "down", frame |-> frame]
             /\ UNCHANGED << server, pc, path, sock, closeCode, pending, connections,
                             session_created, failure, sent, regOps >>
        ELSE LoopBody(s, "down", frame,
                      IF r.err # "" THEN << >>
                      ELSE handle_browser_messages(r.val, session_created[s]))

\* json.loads raising JSONDecodeError, or the body raising any Exception, is
\* logged inside the loop; nothing is sent.
BrowserRecv(s, frame) ==
    LET r == json_loads(frame)
    IN  LoopBody(s, "down", frame,
                 IF r.err # "" THEN << >>
                 ELSE handle_browser_messages(r.val, session_created[s]))

\* hybrid_server.py: one iteration of handle_elevenlabs_ai_messages
AIRecv(s, frame) ==
    LET r == json_loads(frame)
    IN  /\ server = "hybrid_server"
        /\ LoopBody(s, "ai", frame,
                    IF r.err # "" THEN << >> ELSE handle_elevenlabs_ai_messages(r.val))

\* server.py: one iteration of handle_elevenlabs_messages
ElevenLabsRecv(s, frame) ==
    LET r == json_loads(frame)
    IN  /\ server = "server"
        /\ LoopBody(s, "ai", frame,
                    IF r.err # "" THEN << >> ELSE handle_elevenlabs_messages(r.val))

TTSRecv(s, frame) ==
    LET r == json_loads(frame)
    IN  LoopBody(s, "tts", frame,
                 IF r.err # "" THEN << >> ELSE handle_elevenlabs_tts_messages(r.val))

\* recv() raises ConnectionClosed: the loop logs and re-raises, the task ends.
LoopEnd(s, k) ==
    /\ loop[s][k] = "running"
    /\ sock[s][k] = "closed"
    /\ loop' = [loop EXCEPT ![s][k] = "ended"]
    /\ UNCHANGED << server, pc, path, sock, closeCode, pending, connections, session_created,
                    failure, sent, regOps, nframes, lastRecv >>

\* ------------------------------------------------------------- the peers
\* The browser or an ElevenLabs service closes its connection.
PeerClose(s, k) ==
    /\ pc[s] # "new"
    /\ sock[s][k] = "open"
    /\ DOMAIN pc = Clients \/ PeerCloses < MaxSessionPeerCloses
    /\ sock' = [sock EXCEPT ![s][k] = "closed"]
    /\ UNCHANGED << server, pc, path, closeCode, loop, pending, connections, session_created,
                    failure, sent, regOps, nframes, lastRecv >>

Next ==
    \/ \E s \in DOMAIN pc, p \in Paths : Accept(s, p)
    \/ \E s \in DOMAIN pc : CloseRejectDone(s)
    \/ \E s \in DOMAIN pc, ok \in BOOLEAN : ConnectAI(s, ok)
    \/ \E s \in DOMAIN pc, ok \in BOOLEAN : ConnectElevenLabs(s, ok)
    \/ \E s \in DOMAIN pc, o \in {"ok", "connect_failed", "init_failed"} : ConnectTTS(s, o)
    \/ \E s \in DOMAIN pc : InitSent(s)
    \/ \E s \in DOMAIN pc : CreatedSent(s)
    \/ \E s \in DOMAIN pc : CloseErrorDone(s)
    \/ \E s \in DOMAIN pc : GatherRaised(s)
    \/ \E s \in DOMAIN pc : CloseAIDone(s)
    \/ \E s \in DOMAIN pc : CloseElevenLabsDone(s)
    \/ \E s \in DOMAIN pc : CloseTTSDone(s)
    \/ \E s \in DOMAIN pc : CloseDownDone(s)
    \/ \E s \in DOMAIN pc, f \in BrowserFrames : BrowserRecv(s, f)
    \/ \E s \in DOMAIN pc, f \in AIFrames : AIRecv(s, f)
    \/ \E s \in DOMAIN pc, f \in ElevenLabsFrames : ElevenLabsRecv(s, f)
    \/ \E s \in DOMAIN pc, f \in TTSFrames : TTSRecv(s, f)
    \/ \E s \in DOMAIN pc, k \in Socks : SendResumed(s, k)
    \/ \E s \in DOMAIN pc, k \in Socks : LoopEnd(s, k)
    \/ \E s \in DOMAIN pc, k \in Socks : PeerClose(s, k)

Spec == Init /\ [][Next]_vars

\* The event loop runs every task that can run: a loop whose socket is closed
\* gets its ConnectionClosed, the handler is resumed once asyncio.gather has
\* raised, every close() returns (the closing handshake has a timeout), and a
\* suspended send is resumed (the transport drains, or the keepalive of
\* websockets closes a connection whose peer has stopped reading).
FairSpec ==
    /\ Spec
    /\ \A s \in Clients :
          /\ WF_vars(CloseRejectDone(s))
          /\ WF_vars(InitSent(s))
          /\ WF_vars(CreatedSent(s))
          /\ WF_vars(CloseErrorDone(s))
          /\ WF_vars(GatherRaised(s))
          /\ WF_vars(CloseAIDone(s))
          /\ WF_vars(CloseElevenLabsDone(s))
          /\ WF_vars(CloseTTSDone(s))
          /\ WF_vars(CloseDownDone(s))
          /\ \A k \in Socks : WF_vars(SendResumed(s, k))
          /\ \A k \in Socks : WF_vars(LoopEnd(s, k))

\* ------------------------------------------------- several sessions at once
\* websockets.serve starts one handle_browser_connection per browser
\* connection; the handlers share self.connections and the event loop.
Sessions == {1, 2}

InitSessions ==
    /\ server \in Servers
    /\ pc = [s \in Sessions |-> "new"]
    /\ path = [s \in Sessions |-> << >>]
    /\ sock = [s \in Sessions |-> [down |-> "open", ai |-> "none", tts |-> "none"]]
    /\ closeCode = [s \in Sessions |-> [down |-> 0, ai |-> 0, tts |-> 0]]
    /\ loop = [s \in Sessions |-> [down |-> "idle", ai |-> "idle", tts |-> "idle"]]
    /\ pending = [s \in Sessions |-> [down |-> NoSend, ai |-> NoSend, tts |-> NoSend]]
    /\ connections = << >>
    /\ session_created = [s \in Sessions |-> NoEvent]
    /\ failure = [s \in Sessions |-> ""]
    /\ sent = [s \in Sessions |-> [down |-> << >>, ai |-> << >>, tts |-> << >>]]
    /\ regOps = [s \in Sessions |-> [ins |-> 0, del |-> 0]]
    /\ nframes = 0
    /\ lastRecv = [sess |-> 0, sock |-> "", frame |-> NoFrame]

\* The handlers take the same steps as in Next; DOMAIN pc is Sessions here.
NextSessions == Next

SpecSessions == InitSessions /\ [][NextSessions]_vars

TypeOK ==
    /\ server \in Servers
    /\ \A s \in DOMAIN pc :
        /\ pc[s] \in {"new", "closing_1008", "connect_ai", "connect_tts", "send_init",
                      "send_created", "pump", "closing_1011", "closing_ai",
                      "closing_tts", "closing_down", "returned"}
        /\ \A k \in Socks : sock[s][k] \in {"none", "open", "closing", "closed"}
        /\ \A k \in Socks : loop[s][k] \in {"idle", "running", "sending", "ended"}
        /\ \A k \in Socks : (loop[s][k] = "sending") <=> (pending[s][k].wait \in Socks)
    /\ DOMAIN connections \subseteq DOMAIN pc
    /\ nframes \in 0..FrameBound

\* =================================================================== claims
ThreeWay == server = "hybrid_server"

Pumped(s) == loop[s].down # "idle"

\* The step is a recv() on socket k of session s that returned frame f.
Received(s, k, f) ==
    /\ nframes' = nframes + 1
    /\ lastRecv' = [sess |-> s, sock |-> k, frame |-> f]

AppendFrame(p) == Obj([type |-> "input_audio_buffer.append", audio |-> p])

\* Once the pump of a session has run and its handler has returned, the
\* browser, AI and TTS sockets of the session are all closed and the session
\* is not in the registry; its entry was inserted once and deleted once, and
\* no entry is ever deleted more than once.
TornDown ==
    \A s \in DOMAIN pc :
        /\ regOps[s].del <= 1
        /\ (ThreeWay /\ Pumped(s) /\ pc[s] = "returned") =>
              /\ \A k \in Socks : sock[s][k] = "closed"
              /\ s \notin DOMAIN connections
              /\ regOps[s] = [ins |-> 1, del |-> 1]

\* C1: in the three-way relay, a socket of a session closing while its pump
\* runs leads to the handler returning with the browser, AI and TTS sockets
\* all closed and the session out of the registry; whenever a handler whose
\* pump ran has returned, all three sockets are closed, the session is not in
\* the registry and its entry was inserted once and deleted once.
C1_TeardownClosesAll ==
    /\ [] TornDown
    /\ \A s \in Clients :
          ( /\ ThreeWay /\ Pumped(s) /\ pc[s] = "pump"
            /\ \E k \in Socks : sock[s][k] = "closed" )
              ~> ( /\ pc[s] = "returned"
                   /\ \A k \in Socks : sock[s][k] = "closed"
                   /\ s \notin DOMAIN connections )

\* The browser closed its socket while the pump ran; the relay closed the two
\* upstream sockets and the handler returned.
C1_Witness ==
    \E s \in DOMAIN pc :
        /\ Pumped(s) /\ pc[s] = "returned"
        /\ closeCode[s] = [down |-> 0, ai |-> 1000, tts |-> 1000]

\* C2: in the three-way relay no handler has returned while an upstream socket
\* it opened is still open.
C2_NoOrphanedUpstream ==
    \A s \in DOMAIN pc :
        (ThreeWay /\ pc[s] = "returned") => sock[s].ai # "open" /\ sock[s].tts # "open"

\* C3: once one of the three loops of a session has ended, no loop of that
\* session receives a frame or sends a message.
C3_PumpStopsWithFirstLoop ==
    [][ \A s \in DOMAIN pc :
          (ThreeWay /\ \E k \in Socks : loop[s][k] = "ended") =>
              /\ sent'[s] = sent[s]
              /\ ~ (nframes' # nframes /\ lastRecv'.sess = s) ]_vars

\* C4: an input_audio_buffer.append with audio P received while the browser
\* and AI sockets are open puts exactly {"user_audio_chunk": P} on the AI
\* socket in the same loop iteration, before the next recv(), and nothing on
\* the TTS or browser socket; and the browser loop receives a frame only when
\* no send of an earlier frame is outstanding.
C4_AppendForwardedOnce ==
    [][ \A s \in DOMAIN pc :
          /\ \A p \in Payloads :
                ( /\ Received(s, "down", AppendFrame(p))
                  /\ sock[s].down = "open" /\ sock[s].ai = "open" ) =>
                    /\ sent'[s].ai = Append(sent[s].ai, [user_audio_chunk |-> p])
                    /\ sent'[s].tts = sent[s].tts
                    /\ sent'[s].down = sent[s].down
          /\ (nframes' # nframes /\ lastRecv'.sess = s /\ lastRecv'.sock = "down") =>
                loop[s].down = "running" /\ pending[s].down = NoSend ]_vars

\* An append frame was the last frame received and its chunk is the last
\* message on the AI socket, with all three sockets open.
C4_Witness ==
    \E s \in DOMAIN pc, p \in Payloads :
        /\ lastRecv = [sess |-> s, sock |-> "down", frame |-> AppendFrame(p)]
        /\ sent[s].ai = << [user_audio_chunk |-> p] >>
        /\ \A k \in Socks : sock[s][k] = "open"

UpdateFrames ==
    { Obj([type |-> "session.update"]),
      Obj([type |-> "session.update", session |-> [voice |-> "alloy"]]) }

\* new is old with exactly one message added at its end.
OneMore(old, new) == Len(new) = Len(old) + 1 /\ SubSeq(new, 1, Len(old)) = old

Last(q) == q[Len(q)]

\* The handler's session_created, once set, never changes.
DescriptorKept(s) ==
    session_created[s] # NoEvent => session_created'[s] = session_created[s]

\* C5 as stated: every session.update received from the client is answered
\* with exactly one session.updated whose session block is the one sent in
\* session.created, and the descriptor never changes.
C5_EveryUpdateAcknowledged ==
    [][ \A s \in DOMAIN pc :
          /\ DescriptorKept(s)
          /\ \A f \in UpdateFrames :
                Received(s, "down", f) =>
                    sent'[s].down = Append(sent[s].down,
                        [type |-> "session.updated", session |-> sent[s].down[1].session])
      ]_vars

\* C5 amended: every session.update received while the browser socket is open
\* is answered with exactly one session.updated whose session block is the one
\* sent in session.created, nothing goes upstream, and the descriptor never
\* changes.
C5_UpdateAcknowledgedWhileOpen ==
    [][ \A s \in DOMAIN pc :
          /\ DescriptorKept(s)
          /\ \A f \in UpdateFrames :
                (Received(s, "down", f) /\ sock[s].down = "open") =>
                    /\ sent'[s].down = Append(sent[s].down,
                          [type |-> "session.updated", session |-> sent[s].down[1].session])
                    /\ sent'[s].ai = sent[s].ai
                    /\ sent'[s].tts = sent[s].tts
      ]_vars

\* A session.update asking for another voice was received and answered with
\* the descriptor of session.created.
C5_Witness ==
    \E s \in DOMAIN pc :
        /\ lastRecv = [sess |-> s, sock |-> "down",
                       frame |-> Obj([type |-> "session.update", session |-> [voice |-> "alloy"]])]
        /\ Len(sent[s].down) = 2
        /\ sent[s].down[1].type = "session.created"
        /\ sent[s].down[2] = [type |-> "session.updated", session |-> sent[s].down[1].session]

\* The path with its query string removed is "/".
IsRootPath(p) == Len(p) >= 1 /\ p[1] = "/" /\ (Len(p) = 1 \/ p[2] = "?")

\* C6: a connection whose path without the query string is not "/" is closed
\* with 1008 and its handler does nothing but wait for that close and return:
\* no upstream connect was tried, nothing was put in the registry and nothing
\* was sent to the client.
C6_BadPathRejected ==
    \A s \in DOMAIN pc :
        (pc[s] # "new" /\ ~ IsRootPath(path[s])) =>
            /\ pc[s] \in {"closing_1008", "returned"}
            /\ sock[s] = [down |-> IF pc[s] = "returned" THEN "closed" ELSE "closing",
                          ai |-> "none", tts |-> "none"]
            /\ closeCode[s] = [down |-> 1008, ai |-> 0, tts |-> 0]
            /\ failure[s] = ""
            /\ regOps[s].ins = 0 /\ s \notin DOMAIN connections
            /\ sent[s] = [down |-> << >>, ai |-> << >>, tts |-> << >>]
            /\ \A k \in Socks : loop[s][k] = "idle"

\* A path that is "/" only after its query string was rejected with 1008,
\* and the handler has returned after the close.
C6_Witness ==
    \E s \in DOMAIN pc :
        /\ path[s] = << "/", "v", "?", "/" >>
        /\ pc[s] = "returned" /\ closeCode[s].down = 1008 /\ sock[s].down = "closed"

\* C7: a frame that is not JSON, received on any socket of a session, changes
\* nothing but the count of frames received: no socket is closed, no message
\* is sent, no loop ends; and the frame received next on that socket is
\* forwarded as usual.
C7_MalformedFrameIgnored ==
    [][ \A s \in DOMAIN pc :
          /\ \A k \in Socks :
                Received(s, k, BadJSON) =>
                    UNCHANGED << pc, sock, closeCode, loop, pending, connections, sent,
                                 session_created, failure, regOps >>
          /\ \A p \in Payloads :
                ( /\ lastRecv = [sess |-> s, sock |-> "down", frame |-> BadJSON]
                  /\ Received(s, "down", AppendFrame(p)) /\ sock[s].ai = "open" ) =>
                    sent'[s].ai = Append(sent[s].ai, [user_audio_chunk |-> p])
          /\ ( /\ ThreeWay
               /\ lastRecv = [sess |-> s, sock |-> "ai", frame |-> BadJSON]
               /\ Received(s, "ai", Obj([type |-> "interruption"]))
               /\ sock[s].down = "open" ) =>
                    sent'[s].down = Append(sent[s].down, [type |-> "conversation.interrupted"])
          /\ ( /\ lastRecv = [sess |-> s, sock |-> "tts", frame |-> BadJSON]
               /\ Received(s, "tts", Obj([isFinal |-> TRUE]))
               /\ sock[s].down = "open" ) =>
                    sent'[s].down = Append(sent[s].down, [type |-> "response.audio.done"])
      ]_vars

\* A malformed frame was the first frame the browser loop received: nothing
\* was sent for it, every socket is open, every loop runs, and the loop can
\* receive an append frame next.
C7_Witness ==
    \E s \in DOMAIN pc, p \in Payloads :
        /\ nframes = 1
        /\ lastRecv = [sess |-> s, sock |-> "down", frame |-> BadJSON]
        /\ sent[s] = [down |-> << session_created[s] >>, ai |-> << >>,
                      tts |-> << init_message >>]
        /\ \A k \in Socks : sock[s][k] = "open" /\ loop[s][k] = "running"
        /\ ENABLED BrowserRecv(s, AppendFrame(p))

ConnectFailures == {"connect_ai", "connect_failed", "init_failed"}

\* What holds of a session whose upstream connect failed, but for the close
\* code: the handler is closing the browser socket or has returned with it
\* closed, session.created was not sent, no loop was started and nothing was
\* put in the registry.
NeverActive(s) ==
    /\ \/ pc[s] = "closing_1011" /\ sock[s].down = "closing"
       \/ pc[s] = "returned" /\ sock[s].down = "closed"
    /\ sent[s].down = << >>
    /\ \A k \in Socks : loop[s][k] = "idle"
    /\ regOps[s].ins = 0 /\ s \notin DOMAIN connections
    /\ session_created[s] = NoEvent

\* C8 as stated: after a failed upstream connect the browser socket is closed
\* with 1011, session.created was never sent, no loop was started and the
\* session was never in the registry.
C8_ConnectFailureCloses1011 ==
    \A s \in DOMAIN pc :
        failure[s] \in ConnectFailures => NeverActive(s) /\ closeCode[s].down = 1011

\* C8 amended: after a failed upstream connect the browser socket is closed,
\* with 1011 when the client had not closed it already and with no close of
\* the relay's otherwise; session.created was never sent, no loop was started
\* and the session was never in the registry.
C8_ConnectFailureNeverActive ==
    /\ [] (\A s \in DOMAIN pc : failure[s] \in ConnectFailures => NeverActive(s))
    /\ [][ \A s \in DOMAIN pc :
             (failure[s] = "" /\ failure'[s] \in ConnectFailures) =>
                 closeCode'[s].down = IF sock[s].down = "open" THEN 1011 ELSE 0 ]_vars

\* The TTS connect failed after the AI connect succeeded, with the client
\* still connected: the client was closed with 1011.
C8_Witness ==
    \E s \in DOMAIN pc :
        /\ failure[s] = "connect_failed" /\ pc[s] = "returned"
        /\ closeCode[s].down = 1011 /\ sock[s].ai # "none"

AgentFrame(t) ==
    Obj([type |-> "agent_response", agent_response_event |-> [agent_response |-> t]])

\* The step puts exactly one text delta with delta t on the browser socket.
DeltaAdded(s, t) ==
    /\ OneMore(sent[s].down, sent'[s].down)
    /\ Last(sent'[s].down).type = "response.text.delta"
    /\ Last(sent'[s].down).delta = t

\* The AI loop of s is suspended in the send of an utterance to TTS, the text
\* delta of the same agent_response still to send.
UtterancePending(s) ==
    /\ loop[s].ai = "sending"
    /\ pending[s].ai.wait = "tts" /\ pending[s].ai.rest # << >>

\* The step resumes the AI loop of s.
AIResumed(s) == loop[s].ai = "sending" /\ pending'[s].ai # pending[s].ai

\* C9 as stated: in the three-way relay every agent_response with a non-empty
\* text T puts exactly one {"text": T, "flush": true} on the TTS socket and one
\* response.text.delta with delta T on the browser socket, the delta in the
\* step that receives the event or, when the send to TTS is suspended, in the
\* step that resumes it.
C9_AgentResponseFansOut ==
    [][ \A s \in DOMAIN pc, t \in Texts :
          ThreeWay =>
              /\ Received(s, "ai", AgentFrame(t)) =>
                    /\ sent'[s].tts = Append(sent[s].tts, [text |-> t, flush |-> TRUE])
                    /\ \/ DeltaAdded(s, t)
                       \/ sent'[s].down = sent[s].down /\ UtterancePending(s)'
              /\ ( /\ UtterancePending(s) /\ AIResumed(s)
                   /\ Last(sent[s].tts) = [text |-> t, flush |-> TRUE] ) =>
                    DeltaAdded(s, t) ]_vars

\* C9 amended: in the three-way relay every agent_response with a non-empty
\* text T received while the TTS socket is open puts exactly one
\* {"text": T, "flush": true} on the TTS socket and nothing on the AI socket;
\* exactly one response.text.delta with delta T goes on the browser socket
\* when the send to TTS returns (in the receiving step, or in the step that
\* resumes a suspended send) with the browser socket open, and none when the
\* browser socket is not open then or the send to TTS raises, which a
\* suspended send does only once the TTS connection is closed.
C9_AgentResponseFansOutWhileOpen ==
    [][ \A s \in DOMAIN pc, t \in Texts :
          ThreeWay =>
              /\ (Received(s, "ai", AgentFrame(t)) /\ sock[s].tts = "open") =>
                    /\ sent'[s].tts = Append(sent[s].tts, [text |-> t, flush |-> TRUE])
                    /\ sent'[s].ai = sent[s].ai
                    /\ \/ DeltaAdded(s, t) /\ sock[s].down = "open"
                       \/ /\ sent'[s].down = sent[s].down
                          /\ UtterancePending(s)'
                          /\ Len(pending'[s].ai.rest) = 1
                          /\ pending'[s].ai.rest[1].to = "down"
                          /\ pending'[s].ai.rest[1].msg.type = "response.text.delta"
                          /\ pending'[s].ai.rest[1].msg.delta = t
                       \/ sent'[s].down = sent[s].down /\ sock[s].down # "open"
              /\ ( /\ UtterancePending(s) /\ AIResumed(s)
                   /\ Last(sent[s].tts) = [text |-> t, flush |-> TRUE] ) =>
                    /\ sent'[s].tts = sent[s].tts /\ sent'[s].ai = sent[s].ai
                    /\ \/ DeltaAdded(s, t) /\ sock[s].down = "open"
                       \/ /\ sent'[s].down = sent[s].down
                          /\ sock[s].down # "open" \/ sock[s].tts = "closed" ]_vars

\* An agent_response was received; the TTS socket holds the initialization
\* message and the utterance, the client session.created and the text delta,
\* and the AI loop is back at its recv().
C9_Witness ==
    \E s \in DOMAIN pc, t \in Texts :
        /\ lastRecv = [sess |-> s, sock |-> "ai", frame |-> AgentFrame(t)]
        /\ loop[s].ai = "running"
        /\ sent[s].tts = << init_message, [text |-> t, flush |-> TRUE] >>
        /\ Len(sent[s].down) = 2
        /\ sent[s].down[2].type = "response.text.delta" /\ sent[s].down[2].delta = t

InterruptFrames ==
    { Obj([type |-> "interruption"]), Obj([type |-> "agent_response_correction"]) }

\* C10 as stated: in the three-way relay every interruption or agent_response_correction puts
\* exactly one {"type": "conversation.interrupted"} on the browser socket and
\* nothing on the TTS or AI socket.
C10_InterruptionRelayed ==
    [][ \A s \in DOMAIN pc, f \in InterruptFrames :
          (ThreeWay /\ Received(s, "ai", f)) =>
              /\ sent'[s].down = Append(sent[s].down, [type |-> "conversation.interrupted"])
              /\ sent'[s].tts = sent[s].tts
              /\ sent'[s].ai = sent[s].ai ]_vars

\* C10 amended: in the three-way relay every interruption or agent_response_correction received
\* while the browser socket is open puts exactly one
\* {"type": "conversation.interrupted"} on the browser socket and nothing on
\* the TTS or AI socket.
C10_InterruptionRelayedWhileOpen ==
    [][ \A s \in DOMAIN pc, f \in InterruptFrames :
          (ThreeWay /\ Received(s, "ai", f) /\ sock[s].down = "open") =>
              /\ sent'[s].down = Append(sent[s].down, [type |-> "conversation.interrupted"])
              /\ sent'[s].tts = sent[s].tts
              /\ sent'[s].ai = sent[s].ai ]_vars

\* An agent_response_correction was received and the client was sent
\* conversation.interrupted after session.created.
C10_Witness ==
    \E s \in DOMAIN pc :
        /\ lastRecv = [sess |-> s, sock |-> "ai",
                       frame |-> Obj([type |-> "agent_response_correction"])]
        /\ Len(sent[s].down) = 2
        /\ sent[s].down[2] = [type |-> "conversation.interrupted"]
        /\ sent[s].tts = << init_message >> /\ sent[s].ai = << >>

\* The messages the client is to get for a decoded TTS message: an audio delta
\* for a non-empty audio payload, then a completion event when isFinal is set.
TTSExpected(data) ==
    (IF Truthy(Get(data, "audio", None))
     THEN << audio_delta_event(data.audio) >> ELSE << >>)
    \o (IF Get(data, "isFinal", FALSE) THEN << completion_event >> ELSE << >>)

\* C11: in the three-way relay every TTS message received while the browser
\* socket is open puts on the browser socket one response.audio.delta with
\* delta A when it carries a non-empty audio payload A and one
\* response.audio.done when its isFinal flag is set, both when it carries both.
C11_TTSAudioAndFinal ==
    [][ \A s \in DOMAIN pc, f \in TTSFrames :
          ( /\ ThreeWay /\ f.kind = "object"
            /\ Received(s, "tts", f) /\ sock[s].down = "open" ) =>
              sent'[s].down = sent[s].down \o TTSExpected(f.val) ]_vars

TwoWay == server = "server"

\* C12: in the two-way relay, with the browser socket open, an interruption
\* and an agent_response_correction each put exactly
\* {"type": "conversation.interrupted"} on the browser socket, and a ping or a
\* user_transcript puts nothing there.
C12_TwoWayOnlyTranslated ==
    [][ \A s \in DOMAIN pc :
          (TwoWay /\ sock[s].down = "open") =>
              /\ \A f \in InterruptFrames :
                    Received(s, "ai", f) =>
                        sent'[s].down = Append(sent[s].down, interrupted_event)
              /\ \A f \in {Obj([type |-> "ping"]), Obj([type |-> "user_transcript"])} :
                    Received(s, "ai", f) => sent'[s].down = sent[s].down ]_vars

\* C13: in both relays the relay closes the browser socket of a session whose
\* pump ran with 1000 and never with 1011 or 1008: when the teardown that
\* follows the end of a loop reaches the close of the browser socket and the
\* socket is still open, it is closed with 1000.  1011 is on a browser socket
\* only after a failed upstream connect, 1008 only after a bad path.
C13_CloseCodes ==
    /\ [] (\A s \in DOMAIN pc :
             /\ closeCode[s].down \in {0, 1000, 1008, 1011}
             /\ closeCode[s].down = 1011 => failure[s] \in ConnectFailures /\ ~ Pumped(s)
             /\ closeCode[s].down = 1008 => ~ IsRootPath(path[s]) /\ ~ Pumped(s)
             /\ Pumped(s) => closeCode[s].down \in {0, 1000})
    /\ [][ \A s \in DOMAIN pc :
             ( /\ Pumped(s) /\ sock[s].down = "open"
               /\ pc[s] \in {"pump", "closing_ai", "closing_tts"}
               /\ pc'[s] \in {"closing_down", "returned"} ) =>
                 /\ pc'[s] = "closing_down"
                 /\ sock'[s].down = "closing"
                 /\ closeCode'[s].down = 1000 ]_vars

\* The AI service closed its socket while the browser was connected: the AI
\* loop ended, the browser loop did not, and the handler has returned after
\* closing the browser socket with 1000.
C13_Witness ==
    \E s \in DOMAIN pc :
        /\ pc[s] = "returned" /\ failure[s] = ""
        /\ loop[s].ai = "ended" /\ loop[s].down = "running"
        /\ closeCode[s].down = 1000 /\ closeCode[s].ai = 0

\* CONNECTING = 1, ACTIVE = 2, CLOSING = 3, CLOSED = 4
Lifecycle(p) ==
    IF p \in {"new", "connect_ai", "connect_tts", "send_init", "send_created"} THEN 1
    ELSE IF p = "pump" THEN 2
    ELSE IF p \in {"closing_1008", "closing_1011", "closing_ai", "closing_tts",
                   "closing_down"} THEN 3
    ELSE 4

\* Both upstream sockets of a three-way session were connected and the
\* initialization message was the first message sent to the TTS socket; the AI
\* socket of a two-way session was connected.
UpstreamReady(s) ==
    /\ sock[s].ai # "none"
    /\ ThreeWay => /\ sock[s].tts # "none"
                   /\ sent[s].tts # << >> /\ sent[s].tts[1] = init_message

\* C14: no session moves to an earlier lifecycle state; a session is in the
\* registry, has been sent session.created or has its loops started only after
\* its AI socket was connected and its TTS socket was connected and sent the
\* initialization message; the step into ACTIVE starts the loops with the
\* registry entry inserted and session.created the only message sent to the
\* browser; session.created is the first message on the browser socket and is
\* there at most once.
C14_LifecycleMonotonic ==
    /\ [][ \A s \in DOMAIN pc :
             /\ Lifecycle(pc'[s]) >= Lifecycle(pc[s])
             /\ (Lifecycle(pc[s]) = 1 /\ Lifecycle(pc'[s]) = 2) =>
                   /\ s \in DOMAIN connections' /\ regOps'[s].ins = 1
                   /\ sent'[s].down = << session_created_event(server) >>
                   /\ \A k \in Socks : sock'[s][k] # "none" => loop'[s][k] = "running"
           ]_vars
    /\ [] (\A s \in DOMAIN pc :
             /\ (regOps[s].ins > 0 \/ sent[s].down # << >> \/ Pumped(s)) => UpstreamReady(s)
             /\ Lifecycle(pc[s]) = 2 => UpstreamReady(s) /\ s \in DOMAIN connections
             /\ regOps[s].ins <= 1
             /\ \A i \in 1 .. Len(sent[s].down) :
                    sent[s].down[i].type = "session.created" <=> i = 1)

\* A three-way session went through every lifecycle state and its client was
\* sent session.created and then a text delta.
C14_Witness ==
    \E s \in DOMAIN pc :
        /\ ThreeWay /\ pc[s] = "returned" /\ Pumped(s)
        /\ Len(sent[s].down) = 2
        /\ sent[s].down[1] = session_created_event(server)
        /\ sent[s].down[2].type = "response.text.delta"

\* The sockets session s has opened or accepted.
Owned(s) == { k \in Socks : sock[s][k] # "none" }

\* C15: the step that removes a session's entry from the registry leaves no
\* socket of the session that is not closed, the browser socket included; and
\* no session whose pump ran is out of the registry with a socket of its own
\* not closed.
C15_ClosedBeforeRemoval ==
    /\ [][ \A s \in DOMAIN pc :
             (s \in DOMAIN connections /\ s \notin DOMAIN connections') =>
                 \A k \in Owned(s) : sock'[s][k] = "closed" ]_vars
    /\ [] (\A s \in DOMAIN pc :
             (Pumped(s) /\ s \notin DOMAIN connections) =>
                 \A k \in Owned(s) : sock[s][k] = "closed")

\* Everything session t owns is the same before and after the step.
Untouched(t) ==
    /\ pc'[t] = pc[t]
    /\ sock'[t] = sock[t]
    /\ closeCode'[t] = closeCode[t]
    /\ loop'[t] = loop[t]
    /\ pending'[t] = pending[t]
    /\ sent'[t] = sent[t]
    /\ regOps'[t] = regOps[t]
    /\ (t \in DOMAIN connections') = (t \in DOMAIN connections)
    /\ t \in DOMAIN connections => connections'[t] = connections[t]

\* The registry entry of session s holds the upstream sockets of s.
OwnEntry(s) ==
    /\ \A k \in DOMAIN connections[s] : connections[s][k] = s
    /\ \A k \in DOMAIN connections[s] : sock[s][k] # "none"

\* C16: with two sessions running under any interleaving, every step is a
\* step of one session and leaves the sockets, messages, loops and registry
\* entry of the other as they were; a session inserts at most one entry, keyed
\* by itself and holding its own upstream sockets, deletes it at most once and
\* only after inserting it, and is in the registry exactly between the two.
C16_SessionsIsolated ==
    /\ [][ \E s \in DOMAIN pc : \A t \in DOMAIN pc \ {s} : Untouched(t) ]_vars
    /\ [] (\A s \in DOMAIN pc :
             /\ regOps[s].ins <= 1 /\ regOps[s].del <= regOps[s].ins
             /\ (s \in DOMAIN connections) = (regOps[s].ins = 1 /\ regOps[s].del = 0)
             /\ s \in DOMAIN connections => OwnEntry(s))
    /\ [] (DOMAIN connections \subseteq DOMAIN pc)

\* Session 1 was torn down and removed from the registry while session 2,
\* which has forwarded a frame of its browser, is still pumping with its
\* sockets open and its entry in the registry.
C16_Witness ==
    /\ pc[1] = "returned" /\ regOps[1] = [ins |-> 1, del |-> 1]
    /\ pc[2] = "pump" /\ DOMAIN connections = {2}
    /\ sock[2].down = "open" /\ sock[2].ai = "open"
    /\ sent[1].ai = << >> /\ Len(sent[2].ai) = 1

\* AI events the three-way relay only logs: keepalive, user transcript, and a
\* type it has no branch for.
LoggedAIFrames ==
    { Obj([type |-> "ping"]),
      Obj([type |-> "user_transcript"]),
      Obj([type |-> "audio", audio_event |-> [audio_base_64 |-> "Zm9v"]]) }

\* C17: in the three-way relay a ping, a user_transcript or an AI event of an
\* unrecognized type changes nothing but the count of frames received: no
\* message is sent on any socket, no loop ends, no socket and no registry
\* entry changes.
C17_LoggedAIEventsDropped ==
    [][ \A s \in DOMAIN pc, f \in LoggedAIFrames :
          (ThreeWay /\ Received(s, "ai", f)) =>
              UNCHANGED << pc, sock, closeCode, loop, pending, connections, sent,
                           session_created, failure, regOps >> ]_vars

\* An AI event of an unrecognized type was the first frame of a session:
\* nothing was sent for it, every socket is open, and the AI loop runs and can
\* receive an agent_response next.
C17_Witness ==
    \E s \in DOMAIN pc, t \in Texts :
        /\ ThreeWay /\ nframes = 1
        /\ lastRecv = [sess |-> s, sock |-> "ai",
                       frame |-> Obj([type |-> "audio",
                                      audio_event |-> [audio_base_64 |-> "Zm9v"]])]
        /\ sent[s] = [down |-> << session_created[s] >>, ai |-> << >>,
                      tts |-> << init_message >>]
        /\ \A k \in Socks : sock[s][k] = "open" /\ loop[s][k] = "running"
        /\ ENABLED AIRecv(s, AgentFrame(t))

\* The type of a decoded client event that is not input_audio_buffer.append.
NotAppend(f) ==
    /\ f.kind = "object"
    /\ Get(f.val, "type", None) # "input_audio_buffer.append"

\* C18: in both relays a client event of any type but
\* input_audio_buffer.append puts nothing on the AI socket and nothing on the
\* TTS socket, and unless it is a session.update nothing on the browser socket
\* either.
C18_OnlyAppendGoesUpstream ==
    [][ \A s \in DOMAIN pc, f \in BrowserFrames :
          (NotAppend(f) /\ Received(s, "down", f)) =>
              /\ sent'[s].ai = sent[s].ai
              /\ sent'[s].tts = sent[s].tts
              /\ Get(f.val, "type", None) # "session.update" =>
                    sent'[s].down = sent[s].down ]_vars

\* A response.create was the first frame of a session with the browser and
\* AI sockets open: nothing went to the AI socket and the client has been sent
\* session.created only.
C18_Witness ==
    \E s \in DOMAIN pc :
        /\ nframes = 1
        /\ lastRecv = [sess |-> s, sock |-> "down",
                       frame |-> Obj([type |-> "response.create"])]
        /\ sock[s].down = "open" /\ sock[s].ai = "open"
        /\ sent[s].ai = << >> /\ sent[s].down = << session_created[s] >>

IsPrefix(a, b) == Len(a) <= Len(b) /\ SubSeq(b, 1, Len(a)) = a

\* The messages put on socket k of session s by the step.
Added(s, k) == SubSeq(sent'[s][k], Len(sent[s][k]) + 1, Len(sent'[s][k]))

\* The sends the loop on socket src of session s makes for frame f, in order.
Produced(s, src, f) ==
    LET r == json_loads(f)
    IN  IF r.err # "" THEN << >>
        ELSE IF src = "down" THEN handle_browser_messages(r.val, session_created[s])
        ELSE IF src = "tts" THEN handle_elevenlabs_tts_messages(r.val)
        ELSE IF ThreeWay THEN handle_elevenlabs_ai_messages(r.val)
        ELSE handle_elevenlabs_messages(r.val)

\* The messages of intents that go to socket k, in order.
Destined(k, intents) ==
    LET ToK(i) == i.to = k
        sel == SelectSeq(intents, ToK)
    IN  [j \in 1 .. Len(sel) |-> sel[j].msg]

\* The sends of its iteration a loop of s still has to make after the step.
Left(s, src) == IF loop'[s][src] = "sending" THEN pending'[s][src].rest ELSE << >>

\* The step resumes the loop on socket src of session s.
Resumed(s, src) == loop[s][src] = "sending" /\ pending'[s][src] # pending[s][src]

AllOpen(s) == \A j \in Socks : sock[s][j] \in {"open", "none"}

\* C19: the messages on a socket are never reordered or removed, only added at
\* the end; a loop receives a frame only when every send of its earlier frames
\* has returned or raised; the messages a frame produces are sent in the order
\* the loop body makes them, in the step that receives the frame and in the
\* steps that resume a suspended send of its iteration (all of them when the
\* session's sockets are open, the ones before the first failing send
\* otherwise); and a loop sends nothing in any other step.
C19_ReceiptOrder ==
    [][ \A s \in DOMAIN pc, k \in Socks :
          /\ IsPrefix(sent[s][k], sent'[s][k])
          /\ (nframes' = nframes + 1 /\ lastRecv'.sess = s) =>
                LET src == lastRecv'.sock
                    body == Produced(s, src, lastRecv'.frame)
                IN  /\ loop[s][src] = "running" /\ pending[s][src] = NoSend
                    /\ IsPrefix(Added(s, k) \o Destined(k, Left(s, src)), Destined(k, body))
                    /\ AllOpen(s) =>
                          Added(s, k) \o Destined(k, Left(s, src)) = Destined(k, body)
          /\ (nframes' = nframes + 1 /\ lastRecv'.sess # s) => Added(s, k) = << >>
          /\ \A src \in Socks :
                Resumed(s, src) =>
                    LET rest == pending[s][src].rest
                    IN  /\ IsPrefix(Added(s, k) \o Destined(k, Left(s, src)),
                                    Destined(k, rest))
                        /\ AllOpen(s) =>
                              Added(s, k) \o Destined(k, Left(s, src)) = Destined(k, rest)
          /\ ( /\ nframes' = nframes /\ pc'[s] = pc[s]
               /\ \A src \in Socks : ~ Resumed(s, src) ) => Added(s, k) = << >>
      ]_vars

\* The AI loop received an agent_response and then an interruption: the client
\* was sent the text delta and then conversation.interrupted.
C19_Witness ==
    \E s \in DOMAIN pc, t \in Texts :
        /\ ThreeWay /\ nframes = 2
        /\ lastRecv = [sess |-> s, sock |-> "ai", frame |-> Obj([type |-> "interruption"])]
        /\ sent[s].down = << session_created[s], text_event(t), interrupted_event >>
        /\ sent[s].tts = << init_message, tts_message(t) >>

\* m is the one-time initialization message of a TTS connection.
IsInitialization(m) ==
    /\ DOMAIN m = {"text", "voice_settings", "generation_config", "xi_api_key"}
    /\ m.text = " "
    /\ "chunk_length_schedule" \in DOMAIN m.generation_config

\* m is a per-utterance message.
IsUtterance(m) ==
    /\ DOMAIN m = {"text", "flush"}
    /\ m.flush = TRUE /\ m.text # ""

\* C20: the first message on a TTS socket is the initialization message, every
\* later message there is an utterance {"text", "flush": true}, the
\* initialization message is never sent again, and a TTS socket whose connect
\* returned has been sent it.
C20_InitializationFirst ==
    /\ [] (\A s \in DOMAIN pc :
             /\ \A i \in 1 .. Len(sent[s].tts) :
                   IF i = 1 THEN IsInitialization(sent[s].tts[i])
                   ELSE IsUtterance(sent[s].tts[i]) /\ ~ IsInitialization(sent[s].tts[i])
             /\ (sock[s].tts # "none" /\ failure[s] # "init_failed") => sent[s].tts # << >>)
    /\ [][ \A s \in DOMAIN pc :
             sent[s].tts # << >> => sent'[s].tts[1] = sent[s].tts[1] ]_vars

\* Two agent_responses were received: the TTS socket holds the initialization
\* message followed by the two utterances.
C20_Witness ==
    \E s \in DOMAIN pc, t \in Texts :
        /\ nframes = 2
        /\ sent[s].tts = << init_message, tts_message(t), tts_message(t) >>

\* agent_response events without a text: the nested event missing, the text
\* field missing, the text empty.
EmptyAgentFrames ==
    { Obj([type |-> "agent_response"]),
      Obj([type |-> "agent_response", agent_response_event |-> << >>]),
      Obj([type |-> "agent_response", agent_response_event |-> [agent_response |-> ""]]) }

\* C21: in the three-way relay an agent_response whose text is empty or whose
\* agent_response_event or agent_response field is missing changes nothing but
\* the count of frames received: nothing is put on the TTS socket or on the
\* browser socket, and no loop ends.
C21_EmptyAgentResponseSkipped ==
    [][ \A s \in DOMAIN pc, f \in EmptyAgentFrames :
          (ThreeWay /\ Received(s, "ai", f)) =>
              UNCHANGED << pc, sock, closeCode, loop, pending, connections, sent,
                           session_created, failure, regOps >> ]_vars

\* An agent_response with an empty text was the first frame of a session with
\* every socket open: the TTS socket holds the initialization message only,
\* the client session.created only, and the AI loop can receive an
\* agent_response with a text next.
C21_Witness ==
    \E s \in DOMAIN pc, t \in Texts :
        /\ ThreeWay /\ nframes = 1
        /\ lastRecv = [sess |-> s, sock |-> "ai",
                       frame |-> Obj([type |-> "agent_response",
                                      agent_response_event |-> [agent_response |-> ""]])]
        /\ sent[s] = [down |-> << session_created[s] >>, ai |-> << >>,
                      tts |-> << init_message >>]
        /\ \A k \in Socks : sock[s][k] = "open" /\ loop[s][k] = "running"
        /\ ENABLED AIRecv(s, AgentFrame(t))

\* C22: in both relays a loop ends only at its recv(), in a step that
\* receives no frame, and only when its own socket is closed; a step that
\* receives a frame, whatever the state of the sockets it sends to, ends no
\* loop and moves no handler; a step that resumes a loop suspended in a send
\* ends no loop and moves no handler either, and when the send raises (it was
\* waiting for the end of a closing handshake) the loop is back at its recv()
\* with nothing sent; and a handler leaves the pump only when a loop of its
\* own has ended.
C22_SendFailureRecovered ==
    [][ \A s \in DOMAIN pc :
          /\ \A k \in Socks :
                (loop[s][k] # "ended" /\ loop'[s][k] = "ended") =>
                    /\ loop[s][k] = "running"
                    /\ sock[s][k] = "closed"
                    /\ nframes' = nframes
          /\ \A k \in Socks :
                loop[s][k] \in {"running", "sending"} =>
                    loop'[s][k] \in {"running", "sending", "ended"}
          /\ \A k \in Socks :
                (loop[s][k] = "sending" /\ pending'[s][k] # pending[s][k]) =>
                    /\ loop'[s][k] \in {"running", "sending"}
                    /\ UNCHANGED << pc, sock, closeCode, connections, failure, regOps >>
                    /\ \A j \in Socks \ {k} : loop'[s][j] = loop[s][j]
                    /\ ~ pending[s][k].written =>
                          /\ sock[s][pending[s][k].wait] = "closed"
                          /\ loop'[s][k] = "running"
                          /\ sent'[s] = sent[s]
          /\ nframes' # nframes =>
                /\ UNCHANGED << pc, sock, closeCode, connections, failure, regOps >>
                /\ \A k \in Socks : loop'[s][k] \in {loop[s][k], "sending"}
          /\ (pc[s] = "pump" /\ pc'[s] # "pump") =>
                \E k \in Socks : loop[s][k] = "ended" /\ sock[s][k] = "closed"
      ]_vars

\* The AI loop received an agent_response after the TTS service had closed
\* its socket: the send to TTS failed, nothing was sent, the AI loop still
\* runs, the handler is still pumping and the loop can receive its next event.
C22_Witness ==
    \E s \in DOMAIN pc, t \in Texts :
        /\ nframes = 1
        /\ lastRecv = [sess |-> s, sock |-> "ai", frame |-> AgentFrame(t)]
        /\ sock[s] = [down |-> "open", ai |-> "open", tts |-> "closed"]
        /\ sent[s].tts = << init_message >> /\ sent[s].down = << session_created[s] >>
        /\ pc[s] = "pump" /\ loop[s].ai = "running" /\ loop[s].tts = "running"
        /\ ENABLED AIRecv(s, Obj([type |-> "interruption"]))

\* The number of messages of q that are text deltas.
RECURSIVE TextDeltas(_)
TextDeltas(q) ==
    IF q = << >> THEN 0
    ELSE (IF Head(q).type = "response.text.delta" THEN 1 ELSE 0) + TextDeltas(Tail(q))

\* C23: in the three-way relay the step that receives an agent_response with
\* a non-empty text T puts a text delta on the browser socket only if it puts
\* the utterance of T on the TTS socket, and puts nothing on any socket when
\* the TTS socket is not open; any other step puts a text delta on the browser
\* socket only by resuming the AI loop from a send to TTS that wrote the
\* utterance of that text and returned; the loop body makes the TTS send
\* first; and the client has never been sent more text deltas than utterances
\* were handed to TTS.
C23_UtteranceBeforeDelta ==
    /\ [][ \A s \in DOMAIN pc :
             ThreeWay =>
                 /\ \A t \in Texts :
                       Received(s, "ai", AgentFrame(t)) =>
                           /\ sent'[s].down # sent[s].down =>
                                 /\ sent'[s].tts = Append(sent[s].tts,
                                                          [text |-> t, flush |-> TRUE])
                                 /\ sent'[s].down = Append(sent[s].down, text_event(t))
                           /\ sock[s].tts # "open" => sent'[s] = sent[s]
                 /\ ( /\ nframes' = nframes
                      /\ TextDeltas(sent'[s].down) # TextDeltas(sent[s].down) ) =>
                           /\ loop[s].ai = "sending" /\ pending[s].ai.wait = "tts"
                           /\ pending[s].ai.written /\ sock[s].down = "open"
                           /\ IsUtterance(Last(sent[s].tts))
                           /\ sent'[s].down =
                                 Append(sent[s].down, text_event(Last(sent[s].tts).text))
           ]_vars
    /\ [] (\A s \in DOMAIN pc :
             ThreeWay => TextDeltas(sent[s].down) <=
                 Cardinality({ i \in 1 .. Len(sent[s].tts) : IsUtterance(sent[s].tts[i]) }))
    /\ [] (\A t \in Texts :
             LET body == handle_elevenlabs_ai_messages(AgentFrame(t).val)
             IN  Len(body) = 2 /\ body[1].to = "tts" /\ body[2].to = "down")

\* An agent_response was received after the TTS service had closed its socket
\* and the TTS loop had ended, with the client still connected: neither the
\* utterance nor the text delta was sent.
C23_Witness ==
    \E s \in DOMAIN pc, t \in Texts :
        /\ nframes = 1
        /\ lastRecv = [sess |-> s, sock |-> "ai", frame |-> AgentFrame(t)]
        /\ sock[s].tts = "closed" /\ sock[s].down = "open"
        /\ loop[s].tts = "ended" /\ pc[s] = "pump"
        /\ sent[s].tts = << init_message >>
        /\ TextDeltas(sent[s].down) = 0

\* C24: in both relays a session is in the registry only if its upstream
\* sockets were connected (the AI socket, and in the three-way relay the TTS
\* socket with its initialization message sent) and its handler is past the
\* connects and has not returned; a session rejected for its path or whose
\* upstream connect failed was never inserted; and no session whose handler
\* has returned is in the registry.
C24_RegistryOnlyWhileLive ==
    \A s \in DOMAIN pc :
        /\ s \in DOMAIN connections =>
              /\ UpstreamReady(s)
              /\ pc[s] \in {"send_created", "pump", "closing_ai", "closing_tts"}
              /\ regOps[s] = [ins |-> 1, del |-> 0]
        /\ (pc[s] # "new" /\ ~ IsRootPath(path[s])) => regOps[s].ins = 0
        /\ failure[s] \in ConnectFailures => regOps[s].ins = 0
        /\ regOps[s].ins = 0 => s \notin DOMAIN connections
        /\ pc[s] = "returned" => s \notin DOMAIN connections

\* A three-way session is being torn down: its AI socket has been closed, the
\* close of its TTS socket is awaited and its entry is still in the registry.
C24_Witness ==
    \E s \in DOMAIN pc :
        /\ ThreeWay /\ pc[s] = "closing_tts"
        /\ s \in DOMAIN connections
        /\ sock[s].ai = "closed" /\ sock[s].tts = "closing"

====
